---- MODULE Spec2Model ----
(***************************************************************************)
(* Model of the schema-mapping and query-translation layer of the MCP      *)
(* server: mcp_server/data_adapter.py (DataAdapter, get_adapter,           *)
(* reset_adapter) and mcp_server/tools/database.py (list_entities,         *)
(* describe_entity, query_entity).                                         *)
(*                                                                         *)
(* Python values are modelled as follows.  A str is a TLA+ string; None is *)
(* the sentinel NONE.  A dict is a sequence of <<key, value>> pairs in     *)
(* insertion order, with unique keys.  An Optional list / dict / int       *)
(* argument is <<>> for None and <<v>> for the value v.  SQL text is the   *)
(* sequence of its tokens, built by the code's f-strings and parsed again  *)
(* by the store.  An exception is the name of its class in the field       *)
(* "raised" of an operator's result ("" when the call returns).            *)
(***************************************************************************)
EXTENDS Integers, Sequences, FiniteSets, TLC

-----------------------------------------------------------------------------
(* Bounds of the model *)

MaxRows == 2

MaxLimit == 1
MaxFields == 2
MaxReads == 2
NumRequests == 2

(* Program constants *)

DefaultLimit == 100

OneRowLimit == 1

-----------------------------------------------------------------------------
(* Python values *)

NONE == "<None>"

Truthy(x) == x # NONE /\ x # ""

PyStr(x) == IF x = NONE THEN "None" ELSE x

Digit(d) ==
    CASE d = 0 -> "0" [] d = 1 -> "1" [] d = 2 -> "2" [] d = 3 -> "3"
      [] d = 4 -> "4" [] d = 5 -> "5" [] d = 6 -> "6" [] d = 7 -> "7"
      [] d = 8 -> "8" [] OTHER -> "9"

RECURSIVE NatToStr(_)
NatToStr(n) == IF n < 10 THEN Digit(n) ELSE NatToStr(n \div 10) \o Digit(n % 10)

IntToStr(n) == IF n < 0 THEN "-" \o NatToStr(0 - n) ELSE NatToStr(n)

(* dict helpers: a dict is a sequence of <<key, value>> pairs *)

DictKeys(d) == [i \in 1..Len(d) |-> d[i][1]]

HasKey(d, k) == \E i \in 1..Len(d) : d[i][1] = k

DictGet(d, k, default) ==
    IF HasKey(d, k) THEN d[CHOOSE i \in 1..Len(d) : d[i][1] = k][2] ELSE default

InList(x, lst) == \E i \in 1..Len(lst) : lst[i] = x

RECURSIVE Join(_, _)
Join(sep, parts) ==
    IF parts = <<>> THEN <<>>
    ELSE IF Len(parts) = 1 THEN Head(parts)
    ELSE Head(parts) \o sep \o Join(sep, Tail(parts))

-----------------------------------------------------------------------------
(* The configuration file data_mapping.yaml: the value of its "entities"   *)
(* key, a dict from entity name to entity configuration.  An entity        *)
(* configuration is null, or a dict with optional source_table, columns    *)
(* and filter.  columnsKind tells an absent "columns" key from a null one  *)
(* and from a mapping; a logical column mapped to nothing has NONE as its  *)
(* physical column.                                                        *)

EntityCfg(table, kind, cols, flt) ==
    [null |-> FALSE, source_table |-> table, columnsKind |-> kind,
     columns |-> cols, filter |-> flt]

NullCfg ==
    [null |-> TRUE, source_table |-> NONE, columnsKind |-> "absent",
     columns |-> <<>>, filter |-> <<>>]

PilotsCfg ==
    EntityCfg("operators", "map",
              << <<"id", "operator_id">>, <<"name", "full_name">>,
                 <<"certificate_valid", "status">> >>,
              <<"status", "=", "'active'">>)

(* wellformed tells whether yaml.safe_load accepts the content; the empty  *)
(* file is well-formed and loads as None                                   *)
FileAbsent == [exists |-> FALSE, wellformed |-> TRUE, entities |-> <<>>]

FileEmpty == [exists |-> TRUE, wellformed |-> TRUE, entities |-> <<>>]

FileMalformed == [exists |-> TRUE, wellformed |-> FALSE, entities |-> <<>>]

(* one well-formed entity and two sparsely populated ones: a logical       *)
(* column with no physical counterpart, and no source_table                *)
FileMixed ==
    [exists |-> TRUE, wellformed |-> TRUE,
     entities |->
       << <<"pilots", PilotsCfg>>,
          <<"aircraft", EntityCfg("aircraft", "map",
                                  << <<"id", "id">>, <<"registration", NONE>> >>,
                                  <<>>)>>,
          <<"flights", EntityCfg(NONE, "map", << <<"id", "id">> >>, <<>>)>> >>]

(* empty columns, an entity stub with no value, and an entity whose only   *)
(* logical column has no physical counterpart                              *)
FileStub ==
    [exists |-> TRUE, wellformed |-> TRUE,
     entities |->
       << <<"aircraft", EntityCfg("aircraft", "map", <<>>, <<>>)>>,
          <<"flights", NullCfg>>,
          <<"pilots", EntityCfg("operators", "map", << <<"id", NONE>> >>, <<>>)>> >>]

(* columns without an entry for the logical id, and columns whose logical  *)
(* id has no physical counterpart                                          *)
FileSparseIds ==
    [exists |-> TRUE, wellformed |-> TRUE,
     entities |->
       << <<"pilots", EntityCfg("operators", "map",
                                << <<"name", "full_name">> >>, <<>>)>>,
          <<"aircraft", EntityCfg("aircraft", "map",
                                  << <<"id", NONE>>,
                                     <<"registration", "registration">> >>,
                                  <<>>)>> >>]

Files == {FileAbsent, FileEmpty, FileMalformed, FileMixed, FileStub, FileSparseIds}

EntityNames == {"pilots", "aircraft", "flights"}

-----------------------------------------------------------------------------
(* The relational store: physical tables, each a sequence of rows in the   *)
(* store's order; a row is a function from physical column to value.       *)

OperatorRow(i, oid, nm, st) ==
    [id |-> i, operator_id |-> oid, full_name |-> nm, status |-> st]

OperatorRows ==
    { OperatorRow("1", "ID-1", "Ann", "active"),
      OperatorRow("2", "ID-2", "Bob", "inactive"),
      OperatorRow("ID-1", "ID-3", "Ann", "active") }

AircraftRow == [id |-> "ID-1", registration |-> "N100"]

TableRows(t) ==
    CASE t = "operators" -> OperatorRows
      [] t = "aircraft" -> {AircraftRow}
      [] OTHER -> {}

Tables == {"operators", "aircraft"}

IdValues == {"ID-1", "ID-9", ""}

-----------------------------------------------------------------------------
VARIABLES
    file,       \* content of data_mapping.yaml in the working directory
    env,        \* DATABASE_URL (NONE, or the dialect it names) and whether the
                \* store it names accepts connections
    db,         \* the store: table name -> sequence of rows
    adapter,    \* the global _adapter: [set, db_url, loaded, mapping, engine,
                \* reads], reads counting the times the instance opened the file
    last,       \* the last call of a public operation and its outcome
    requests    \* requests served at the same time: the adapter instances
                \* built so far, the instance _adapter refers to, and each
                \* request's position in get_adapter() and in the mapping
                \* property

vars == <<file, env, db, adapter, last, requests>>

NoAdapter ==
    [set |-> FALSE, db_url |-> NONE, loaded |-> FALSE, mapping |-> <<>>,
     engine |-> FALSE, reads |-> 0]

-----------------------------------------------------------------------------
(* DataAdapter: construction, the lazily loaded mapping, the mapping views *)

DataAdapter__init__ ==
    [set |-> TRUE, db_url |-> env.DATABASE_URL, loaded |-> FALSE, mapping |-> <<>>,
     engine |-> FALSE, reads |-> 0]

(* get_adapter(): the global instance, created on first use *)
get_adapter == IF ~adapter.set THEN DataAdapter__init__ ELSE adapter

(* a mapping property that fails on an absent file *)
mapping_strict(a) ==
    IF a.loaded \/ ~file.exists THEN a
    ELSE IF file.wellformed
    THEN [a EXCEPT !.loaded = TRUE, !.mapping = file.entities, !.reads = @ + 1]
    ELSE [a EXCEPT !.reads = @ + 1]

(* a mapping property that reads the file at every access *)
mapping_reload(a) ==
    IF ~file.exists THEN [a EXCEPT !.loaded = TRUE, !.mapping = <<>>]
    ELSE IF file.wellformed
    THEN [a EXCEPT !.loaded = TRUE, !.mapping = file.entities, !.reads = @ + 1]
    ELSE [a EXCEPT !.reads = @ + 1]

(* the property DataAdapter.mapping: while _mapping is None, read the file *)
(* if it exists, else take the empty mapping.  yaml.safe_load raises on    *)
(* malformed content and _mapping stays None: the access has raised when   *)
(* the adapter it leaves is not loaded.                                    *)
mapping(a) ==
    IF a.loaded THEN a
    ELSE IF ~file.exists THEN [a EXCEPT !.loaded = TRUE, !.mapping = <<>>]
    ELSE IF file.wellformed
    THEN [a EXCEPT !.loaded = TRUE, !.mapping = file.entities, !.reads = @ + 1]
    ELSE [a EXCEPT !.reads = @ + 1]

(* truth value of an entity configuration: None and the empty dict are false *)
CfgTruthy(c) ==
    /\ ~c.null
    /\ \/ c.source_table # NONE
       \/ c.columnsKind # "absent"
       \/ c.filter # <<>>

(* truth value of config.get("columns") *)
ColumnsTruthy(c) == c.columnsKind = "map" /\ c.columns # <<>>

(* get_entity_config: dict.get gives None for an absent name and for a     *)
(* name whose value is null alike                                          *)
get_entity_config(m, entity_name) == DictGet(m, entity_name, NullCfg)

is_entity_configured(m, entity_name) ==
    LET config == get_entity_config(m, entity_name)
    IN  CfgTruthy(config) /\ Truthy(config.source_table) /\ ColumnsTruthy(config)

(* get_configured_entities: config.get on a null entity value raises *)
get_configured_entities(m) ==
    IF \E i \in 1..Len(m) : m[i][2].null
    THEN [raised |-> "AttributeError", value |-> <<>>]
    ELSE [raised |-> "",
          value |-> DictKeys(SelectSeq(m, LAMBDA e :
                        Truthy(e[2].source_table) /\ ColumnsTruthy(e[2])))]

-----------------------------------------------------------------------------
(* Query Builder *)

NoQuery(exc) == [raised |-> exc, query |-> <<>>, params |-> <<>>]

(* a SELECT list that does not alias the physical columns *)
select_parts_unaliased(columns) ==
    LET kept == SelectSeq(columns, LAMBDA c : Truthy(c[2]))
    IN  [i \in 1..Len(kept) |-> <<kept[i][2], "AS", kept[i][2]>>]

(* a SELECT list that loses the last mapped column *)
select_parts_drop_last(columns) ==
    LET kept == SelectSeq(columns, LAMBDA c : Truthy(c[2]))
    IN  [i \in 1..(Len(kept) - 1) |-> <<kept[i][2], "AS", kept[i][1]>>]

(* the SELECT list: "physical AS logical" for every pair whose physical    *)
(* column is set, joined by commas                                         *)
select_parts(columns) ==
    LET kept == SelectSeq(columns, LAMBDA c : Truthy(c[2]))
    IN  [i \in 1..Len(kept) |-> <<kept[i][2], "AS", kept[i][1]>>]

(* WHERE parts with the caller's predicate before the static filter *)
where_parts_caller_first(base_filter, where_clause) ==
    (IF where_clause # <<>> THEN << <<"(">> \o where_clause \o <<")">> >> ELSE <<>>)
    \o
    (IF base_filter # <<>> THEN << <<"(">> \o base_filter \o <<")">> >> ELSE <<>>)

where_parts(base_filter, where_clause) ==
    (IF base_filter # <<>> THEN << <<"(">> \o base_filter \o <<")">> >> ELSE <<>>)
    \o
    (IF where_clause # <<>> THEN << <<"(">> \o where_clause \o <<")">> >> ELSE <<>>)

(* a LIMIT clause that is off by one *)
limit_clause_off_by_one(limit) ==
    IF limit # <<>> /\ limit[1] # 0 THEN <<"LIMIT", IntToStr(limit[1] + 1)>> ELSE <<>>

limit_clause(limit) ==
    IF limit # <<>> /\ limit[1] # 0 THEN <<"LIMIT", IntToStr(limit[1])>> ELSE <<>>

(* a WHERE text whose fallback predicate matches no row *)
where_sql_no_row(parts) ==
    IF parts # <<>> THEN Join(<<"AND">>, parts) ELSE <<"1", "=", "0">>

where_sql(parts) ==
    IF parts # <<>> THEN Join(<<"AND">>, parts) ELSE <<"1", "=", "1">>

select_query(config, select_clause, where_clause, where_params, limit) ==
    IF select_clause = <<>> THEN NoQuery("ValueError")
    ELSE [raised |-> "",
          query  |-> <<"SELECT">> \o Join(<<",">>, select_clause)
                     \o <<"FROM", config.source_table, "WHERE">>
                     \o where_sql(where_parts(config.filter, where_clause))
                     \o limit_clause(limit),
          params |-> where_params]

build_select_config(config, where_clause, where_params, limit) ==
    IF ~CfgTruthy(config) THEN NoQuery("ValueError")
    ELSE IF ~Truthy(config.source_table) THEN NoQuery("ValueError")
    ELSE IF config.columnsKind = "null" THEN NoQuery("AttributeError")
    ELSE select_query(config, select_parts(config.columns), where_clause,
                      where_params, limit)

build_select_query(m, entity_name, where_clause, where_params, limit) ==
    build_select_config(get_entity_config(m, entity_name), where_clause,
                        where_params, limit)

-----------------------------------------------------------------------------
(* The store's execution of a statement: conn.execute(text(query), params). *)
(* The store parses the text: the select list up to FROM, the table, the   *)
(* conjuncts of the WHERE clause, the LIMIT.  An identifier of the WHERE   *)
(* clause names a physical column of the table; SQLite also resolves it to *)
(* an alias of the select list when the table has no such column, other    *)
(* dialects report an unknown column.  A negative LIMIT means no limit in  *)
(* SQLite and is an error elsewhere.                                       *)

TableColumns(t) ==
    CASE t = "operators" -> {"id", "operator_id", "full_name", "status"}
      [] t = "aircraft" -> {"id", "registration"}
      [] OTHER -> {}

Literals == {"active", "inactive"}

(* a filter key that spells more than a column name *)
HostileKey == "1=1) OR (status"

Quote(v) == "'" \o v \o "'"

NumberTokens == {IntToStr(n) : n \in 0..9}

IndexOf(text, tok) ==
    IF \E i \in 1..Len(text) : text[i] = tok
    THEN CHOOSE i \in 1..Len(text) :
             text[i] = tok /\ \A j \in 1..(i - 1) : text[j] # tok
    ELSE 0

LimitValues == (0 - 1)..(DefaultLimit + 1)

LimitTokens == [n \in LimitValues |-> IntToStr(n)]

ParseInt(tok) ==
    IF \E n \in LimitValues : LimitTokens[n] = tok
    THEN <<CHOOSE n \in LimitValues : LimitTokens[n] = tok>>
    ELSE <<>>

(* The store reads the statement as text: a piece that the code put into   *)
(* the statement as one string is read as the tokens it spells.            *)
Tokens(piece) ==
    IF piece = HostileKey
    THEN <<"1", "=", "1", ")", "OR", "(", "status">>
    ELSE <<piece>>

Lex(text) == Join(<<>>, [i \in 1..Len(text) |-> Tokens(text[i])])

(* the parts of a token sequence between the occurrences of tok *)
RECURSIVE SplitOn(_, _)
SplitOn(toks, tok) ==
    IF IndexOf(toks, tok) = 0 THEN <<toks>>
    ELSE <<SubSeq(toks, 1, IndexOf(toks, tok) - 1)>>
         \o SplitOn(SubSeq(toks, IndexOf(toks, tok) + 1, Len(toks)), tok)

(* the comparisons "lhs = rhs" of a conjunction "c AND c AND ..." *)
Atoms(conj) ==
    [k \in 1..((Len(conj) + 1) \div 4) |->
        [lhs |-> conj[4 * k - 3], rhs |-> conj[4 * k - 1]]]

(* The WHERE clause is a disjunction of conjunctions of comparisons, AND   *)
(* binding tighter than OR; every pair of parentheses of the statements    *)
(* encloses comparisons of one conjunction and is dropped.                 *)
ParseWhere(whr) ==
    [d \in 1..Len(SplitOn(whr, "OR")) |-> Atoms(SplitOn(whr, "OR")[d])]

ParseLexed(text, iFrom, iLimit) ==
    [items |-> [k \in 1..(iFrom \div 4) |->
                    [source |-> text[4 * k - 2], alias |-> text[4 * k]]],
     table |-> text[iFrom + 1],
     disjuncts |-> ParseWhere(SelectSeq(SubSeq(text, iFrom + 3,
                                  IF iLimit = 0 THEN Len(text) ELSE iLimit - 1),
                           LAMBDA t : t \notin {"(", ")"})),
     limit |-> IF iLimit = 0 THEN <<>> ELSE ParseInt(text[iLimit + 1])]

ParseTokens(text) == ParseLexed(text, IndexOf(text, "FROM"), IndexOf(text, "LIMIT"))

ParseSelect(text) == ParseTokens(Lex(text))

IsParam(tok, params) == \E i \in 1..Len(params) : ":" \o params[i][1] = tok

IsLiteral(tok) == tok \in NumberTokens \/ \E v \in Literals : Quote(v) = tok

IsAlias(tok, items) == \E k \in 1..Len(items) : items[k].alias = tok

Resolvable(tok, stmt, params, dialect) ==
    \/ tok \in TableColumns(stmt.table)
    \/ IsParam(tok, params)
    \/ IsLiteral(tok)
    \/ dialect = "sqlite" /\ IsAlias(tok, stmt.items)

Operand(tok, row, stmt, params) ==
    IF tok \in TableColumns(stmt.table) THEN row[tok]
    ELSE IF IsParam(tok, params)
    THEN params[CHOOSE i \in 1..Len(params) : ":" \o params[i][1] = tok][2]
    ELSE IF tok \in NumberTokens THEN tok
    ELSE IF \E v \in Literals : Quote(v) = tok
    THEN CHOOSE v \in Literals : Quote(v) = tok
    ELSE row[stmt.items[CHOOSE k \in 1..Len(stmt.items) :
                            stmt.items[k].alias = tok].source]

StatementError(stmt, params, dialect) ==
    \/ stmt.table \notin Tables
    \/ \E k \in 1..Len(stmt.items) : stmt.items[k].source \notin TableColumns(stmt.table)
    \/ \E d \in 1..Len(stmt.disjuncts) : \E k \in 1..Len(stmt.disjuncts[d]) :
          \/ ~Resolvable(stmt.disjuncts[d][k].lhs, stmt, params, dialect)
          \/ ~Resolvable(stmt.disjuncts[d][k].rhs, stmt, params, dialect)
    \/ stmt.limit # <<>> /\ stmt.limit[1] < 0 /\ dialect # "sqlite"

Matches(row, stmt, params) ==
    \E d \in 1..Len(stmt.disjuncts) : \A k \in 1..Len(stmt.disjuncts[d]) :
        Operand(stmt.disjuncts[d][k].lhs, row, stmt, params)
            = Operand(stmt.disjuncts[d][k].rhs, row, stmt, params)

(* row._mapping: the row keyed by the names of the result columns *)
RowMapping(row, stmt) ==
    [k \in 1..Len(stmt.items) |-> <<stmt.items[k].alias, row[stmt.items[k].source]>>]

(* the first rows of the matching ones that the LIMIT admits *)
Limited(matched, limit) ==
    IF limit # <<>> /\ limit[1] >= 0 /\ limit[1] < Len(matched)
    THEN SubSeq(matched, 1, limit[1])
    ELSE matched

ResultRows(rows, stmt) == [i \in 1..Len(rows) |-> RowMapping(rows[i], stmt)]

ExecuteStatement(stmt, params, dialect) ==
    IF StatementError(stmt, params, dialect)
    THEN [error |-> TRUE, rows |-> <<>>]
    ELSE [error |-> FALSE,
          rows  |-> ResultRows(
                      Limited(SelectSeq(db[stmt.table],
                                        LAMBDA row : Matches(row, stmt, params)),
                              stmt.limit),
                      stmt)]

Execute(query, params, dialect) == ExecuteStatement(ParseSelect(query), params, dialect)

-----------------------------------------------------------------------------
(* Record Accessor.  connect tells whether the store accepts the           *)
(* connection.  The results carry the statement sent to the store, the new *)
(* value of the lazily created engine and the number of connections the    *)
(* call opened and left open.                                              *)

Raised_dropping_mapping(exc, a, q, opened) ==
    [raised |-> exc, rows |-> <<>>, adapter |-> [a EXCEPT !.mapping = <<>>],
     query |-> q.query, params |-> q.params, opened |-> opened, open |-> 0]

Raised(exc, a, q, opened) ==
    [raised |-> exc, rows |-> <<>>, adapter |-> a, query |-> q.query,
     params |-> q.params, opened |-> opened, open |-> 0]

Returned(a, rows) ==
    [raised |-> "", rows |-> rows, adapter |-> a, query |-> <<>>,
     params |-> <<>>, opened |-> 0, open |-> 0]

(* a with block that does not close its connection *)
connection_kept(r) == r

(* Connection.__exit__: the with block closes its connection when the body *)
(* returns and when it raises                                              *)
connection_exit(r) == [r EXCEPT !.open = @ - 1]

(* the body of the with block on the connection just opened: conn.execute() *)
with_body(a, q, r) ==
    [raised |-> IF r.error THEN "ProgrammingError" ELSE "",
     rows |-> r.rows, adapter |-> a, query |-> q.query,
     params |-> q.params, opened |-> 1, open |-> 1]

executed(a, q, r) == connection_exit(with_body(a, q, r))

(* the property DataAdapter.engine, then engine.connect() *)
run_statement(a, q, connect) ==
    IF ~a.engine /\ ~Truthy(a.db_url) THEN Raised("ValueError", a, q, 0)
    ELSE IF ~connect THEN Raised("OperationalError", [a EXCEPT !.engine = TRUE], q, 0)
    ELSE executed([a EXCEPT !.engine = TRUE], q, Execute(q.query, q.params, a.db_url))

(* a statement that could not be built raises before the store is used *)
run_query(a, q, connect) ==
    IF q.raised # "" THEN Raised(q.raised, a, q, 0) ELSE run_statement(a, q, connect)

(* result.fetchone(): rows is <<record>> for a row and <<>> for None *)
fetchone(r) ==
    IF r.raised # "" \/ r.rows = <<>> THEN r ELSE [r EXCEPT !.rows = <<r.rows[1]>>]

query_one_config(a, config, entity_name, id_value, id_column, connect) ==
    IF ~CfgTruthy(config) THEN Returned(a, <<>>)
    ELSE IF config.columnsKind = "null" THEN Raised("AttributeError", a, NoQuery(""), 0)
    ELSE fetchone(run_query(a,
             build_select_query(a.mapping, entity_name,
                 <<PyStr(DictGet(config.columns, id_column, id_column)),
                   "=", ":id_value">>,
                 << <<"id_value", id_value>> >>,
                 <<OneRowLimit>>),
             connect))

query_one(a, entity_name, id_value, id_column, connect) ==
    query_one_config(a, get_entity_config(a.mapping, entity_name), entity_name,
                     id_value, id_column, connect)

query_many(a, entity_name, where_clause, where_params, limit, connect) ==
    IF ~CfgTruthy(get_entity_config(a.mapping, entity_name)) THEN Returned(a, <<>>)
    ELSE run_query(a,
             build_select_query(a.mapping, entity_name, where_clause,
                                where_params, <<limit>>),
             connect)

-----------------------------------------------------------------------------
(* The public operations of tools/database.py.  A result records the call, *)
(* the exception that left it (raised) or the payload it returned: keys is *)
(* the payload's keys in order, the other fields are their values.         *)

NoCall ==
    [op |-> "none", entity |-> NONE, id |-> NONE, filters |-> <<>>,
     fields |-> <<>>, limit |-> 0,
     raised |-> "", keys |-> <<>>,
     error |-> "", available_entities |-> <<>>, entities |-> <<>>,
     message |-> "", fields_out |-> <<>>, source_table |-> NONE,
     data_null |-> FALSE, data |-> <<>>, count |-> 0, limit_out |-> 0,
     query |-> <<>>, params |-> <<>>, opened |-> 0, open |-> 0,
     constructed |-> FALSE, reset |-> FALSE]

descriptions(name) ==
    CASE name = "pilots" -> "Pilot certifications and credentials"
      [] name = "aircraft" -> "Aircraft registration and status"
      [] name = "flights" -> "Flight logs and telemetry"
      [] OTHER -> name \o " data"

field_descriptions(field_name) ==
    CASE field_name = "id" -> "Unique identifier"
      [] field_name = "name" -> "Full name"
      [] field_name = "certificate_valid" -> "Whether certificate is currently valid"
      [] field_name = "registration" -> "FAA registration number (N-number)"
      [] OTHER -> field_name

NotConfigured(call, m) ==
    LET available == get_configured_entities(m)
    IN  IF available.raised # "" THEN [call EXCEPT !.raised = available.raised]
        ELSE [call EXCEPT
                !.keys = <<"error", "available_entities">>,
                !.error = "Entity '" \o call.entity \o "' not configured",
                !.available_entities = available.value]

(* a list_entities that asks for the database engine first *)
list_entities_with_engine(a) ==
    LET call == [NoCall EXCEPT !.op = "list_entities"]
        configured == get_configured_entities(a.mapping)
    IN  IF ~Truthy(a.db_url) THEN [call EXCEPT !.raised = "ValueError"]
        ELSE IF configured.raised # "" THEN [call EXCEPT !.raised = configured.raised]
        ELSE IF configured.value = <<>>
        THEN [call EXCEPT
                !.keys = <<"entities", "message">>,
                !.message = "No entities configured. Run 'uavcrew map-data' to set up data mapping."]
        ELSE [call EXCEPT
                !.keys = <<"entities">>,
                !.entities = [i \in 1..Len(configured.value) |->
                                <<configured.value[i], descriptions(configured.value[i])>>]]

list_entities_result(a) ==
    LET call == [NoCall EXCEPT !.op = "list_entities"]
        configured == get_configured_entities(a.mapping)
        entities == [i \in 1..Len(configured.value) |->
                        <<configured.value[i], descriptions(configured.value[i])>>]
    IN  IF configured.raised # "" THEN [call EXCEPT !.raised = configured.raised]
        ELSE IF entities = <<>>
        THEN [call EXCEPT
                !.keys = <<"entities", "message">>,
                !.message = "No entities configured. Run 'uavcrew map-data' to set up data mapping."]
        ELSE [call EXCEPT !.keys = <<"entities">>, !.entities = entities]

(* a describe_entity that lists only the logical columns that are selectable *)
describe_entity_selectable_only(a, entity) ==
    LET call == [NoCall EXCEPT !.op = "describe_entity", !.entity = entity]
        config == get_entity_config(a.mapping, entity)
        kept == SelectSeq(config.columns, LAMBDA c : Truthy(c[2]))
    IN  IF ~CfgTruthy(config) THEN NotConfigured(call, a.mapping)
        ELSE [call EXCEPT
                !.keys = <<"entity", "fields", "source_table">>,
                !.fields_out = [i \in 1..Len(kept) |->
                                  <<kept[i][1], field_descriptions(kept[i][1])>>],
                !.source_table = config.source_table]

describe_entity_result(a, entity) ==
    LET call == [NoCall EXCEPT !.op = "describe_entity", !.entity = entity]
        config == get_entity_config(a.mapping, entity)
    IN  IF ~CfgTruthy(config) THEN NotConfigured(call, a.mapping)
        ELSE IF config.columnsKind = "null" THEN [call EXCEPT !.raised = "AttributeError"]
        ELSE [call EXCEPT
                !.keys = <<"entity", "fields", "source_table">>,
                !.fields_out = [i \in 1..Len(config.columns) |->
                                  <<config.columns[i][1],
                                    field_descriptions(config.columns[i][1])>>],
                !.source_table = config.source_table]

(* a projection that follows the order of fields: {k: row[k] for k in fields if k in row} *)
Project_in_fields_order(row, fields) ==
    LET known == SelectSeq(fields, LAMBDA k : HasKey(row, k))
    IN  [i \in 1..Len(known) |-> <<known[i], DictGet(row, known[i], NONE)>>]

(* a projection that also loses the first key it retains *)
Project_drop_first(row, fields) ==
    IF SelectSeq(row, LAMBDA kv : InList(kv[1], fields)) = <<>> THEN <<>>
    ELSE Tail(SelectSeq(row, LAMBDA kv : InList(kv[1], fields)))

(* {k: v for k, v in row.items() if k in fields} *)
Project(row, fields) == SelectSeq(row, LAMBDA kv : InList(kv[1], fields))

(* conditions that carry the values of the filters in their text *)
filter_conditions_inline(filters) ==
    Join(<<"AND">>, [i \in 1..Len(filters) |->
                        <<filters[i][1], "=", "'" \o filters[i][2] \o "'">>])

(* the conditions "field = :p<i>" of the filters, joined by AND, and their *)
(* bound parameters; i counts from 0                                       *)
filter_conditions(filters) ==
    Join(<<"AND">>, [i \in 1..Len(filters) |->
                        <<filters[i][1], "=", ":p" \o IntToStr(i - 1)>>])

filter_params(filters) ==
    [i \in 1..Len(filters) |-> <<"p" \o IntToStr(i - 1), filters[i][2]>>]

Observed(call, r) ==
    [call EXCEPT !.raised = r.raised, !.query = r.query, !.params = r.params,
                 !.opened = r.opened, !.open = r.open]

FieldsGiven(fields) == fields # <<>> /\ fields[1] # <<>>

(* the projection of a found record: if fields: {k: v ... if k in fields} *)
project_record(row, fields) ==
    IF FieldsGiven(fields) THEN Project(row, fields[1]) ELSE row

(* the single-record branch, given the outcome of query_one *)
single_record(call, one, fields) ==
    [adapter |-> one.adapter,
     result |->
       IF one.raised # "" THEN Observed(call, one)
       ELSE IF one.rows # <<>>
       THEN [Observed(call, one) EXCEPT
               !.keys = <<"data">>,
               !.data = <<project_record(one.rows[1], fields)>>]
       ELSE [Observed(call, one) EXCEPT
               !.keys = <<"data", "message">>,
               !.data_null = TRUE,
               !.message = "No " \o call.entity \o " found with id '"
                           \o call.id \o "'"]]

project_rows(rows, fields) ==
    IF FieldsGiven(fields) /\ rows # <<>>
    THEN [i \in 1..Len(rows) |-> Project(rows[i], fields[1])]
    ELSE rows

multi_payload(observed, results, limit) ==
    [observed EXCEPT !.keys = <<"data", "count", "limit">>,
                     !.data = results,
                     !.count = Len(results),
                     !.limit_out = limit]

(* the multi-record branch, given the outcome of query_many *)
multi_record(call, many, fields, limit) ==
    [adapter |-> many.adapter,
     result |->
       IF many.raised # "" THEN Observed(call, many)
       ELSE multi_payload(Observed(call, many), project_rows(many.rows, fields), limit)]

filters_dict(filters) == IF filters # <<>> THEN filters[1] ELSE <<>>

multi_record_query(a, call, flt, fields, limit, connect) ==
    multi_record(call,
                 query_many(a, call.entity,
                            IF flt # <<>> THEN filter_conditions(flt) ELSE <<>>,
                            IF flt # <<>> THEN filter_params(flt) ELSE <<>>,
                            limit, connect),
                 fields, limit)

query_entity_call_truthy_id(a, call, connect) ==
    IF ~is_entity_configured(a.mapping, call.entity)
    THEN [result |-> NotConfigured(call, a.mapping), adapter |-> a]
    ELSE IF Truthy(call.id)
    THEN single_record(call, query_one(a, call.entity, call.id, "id", connect),
                       call.fields)
    ELSE multi_record_query(a, call, filters_dict(call.filters), call.fields,
                            call.limit, connect)

query_entity_call(a, call, connect) ==
    IF ~is_entity_configured(a.mapping, call.entity)
    THEN [result |-> NotConfigured(call, a.mapping), adapter |-> a]
    ELSE IF call.id # NONE
    THEN single_record(call, query_one(a, call.entity, call.id, "id", connect),
                       call.fields)
    ELSE multi_record_query(a, call, filters_dict(call.filters), call.fields,
                            call.limit, connect)

(* query_entity: the result and the adapter as the call leaves it *)
query_entity_result(a, entity, id, filters, fields, limit, connect) ==
    query_entity_call(a,
        [NoCall EXCEPT !.op = "query_entity", !.entity = entity, !.id = id,
                       !.filters = filters, !.fields = fields, !.limit = limit],
        connect)

-----------------------------------------------------------------------------
(* Inputs of the calls *)

FilterChoices ==
    { <<>>,                                          \* filters = None
      << <<>> >>,                                    \* filters = {}
      << << <<"id", "1">> >> >>,
      << << <<"id", "ID-1">>, <<"name", "Ann">> >> >>,
      << << <<"status", "inactive">> >> >>,          \* a physical column
      << << <<HostileKey, "inactive">> >> >> }       \* more than a name

FieldChoices ==
    { <<>>,                                          \* fields = None
      << <<>> >>,                                    \* fields = []
      << <<"name", "bogus", "id">> >> }

Limits == ((0 - 1)..MaxLimit) \cup {DefaultLimit}

Dialects == {"sqlite", "postgresql"}

Environments ==
    { [DATABASE_URL |-> NONE, store_up |-> TRUE],
      [DATABASE_URL |-> "sqlite", store_up |-> TRUE],
      [DATABASE_URL |-> "postgresql", store_up |-> TRUE],
      [DATABASE_URL |-> "postgresql", store_up |-> FALSE] }

-----------------------------------------------------------------------------
(* The state machine *)

(* The arguments of a query_entity call: in multi-record mode every        *)
(* filters with every limit and with every fields; in single-record mode   *)
(* every id with every fields and some filters and limits beside it.       *)
QueryArgs ==
    [id : {NONE}, filters : FilterChoices, fields : {<<>>}, limit : Limits]
    \cup
    [id : {NONE}, filters : FilterChoices, fields : FieldChoices,
     limit : {DefaultLimit}]
    \cup
    [id : IdValues, filters : {<<>>}, fields : FieldChoices, limit : {DefaultLimit}]
    \cup
    [id : IdValues, filters : {<< << <<"id", "1">> >> >>}, fields : FieldChoices,
     limit : {0}]

Idle == last.op = "none"

Requests == 1..NumRequests

(* no request has entered get_adapter() yet *)
NoRequests ==
    [instances |-> <<>>, global |-> 0, assigned |-> 0, loads |-> 0,
     pc |-> [t \in Requests |-> "get_adapter"],
     self |-> [t \in Requests |-> 0]]

Init ==
    /\ file \in Files
    /\ env \in Environments
    /\ db = [t \in Tables |-> IF t = "aircraft" THEN <<AircraftRow>> ELSE <<>>]
    /\ adapter = NoAdapter
    /\ last = NoCall
    /\ requests = NoRequests

(* every operation takes the adapter from get_adapter() and reads its      *)
(* mapping first; a failed load leaves the operation with the parser's     *)
(* exception                                                               *)
Outcome(a, result, constructed) ==
    IF a.loaded
    THEN [result EXCEPT !.constructed = constructed, !.reset = last.reset]
    ELSE [result EXCEPT !.raised = "YAMLError", !.constructed = constructed,
                        !.reset = last.reset]

(* the file is opened at most MaxReads times by one instance *)
ReadsBounded(a) == a.loaded \/ ~file.exists \/ a.reads < MaxReads

list_entities_call(a) ==
    /\ adapter' = a
    /\ last' = Outcome(a,
                 IF a.loaded THEN list_entities_result(a)
                 ELSE [NoCall EXCEPT !.op = "list_entities"],
                 ~adapter.set)

list_entities ==
    /\ Idle
    /\ ReadsBounded(get_adapter)
    /\ list_entities_call(mapping(get_adapter))
    /\ UNCHANGED <<file, env, db, requests>>

describe_entity_call(a, entity) ==
    /\ adapter' = a
    /\ last' = Outcome(a,
                 IF a.loaded THEN describe_entity_result(a, entity)
                 ELSE [NoCall EXCEPT !.op = "describe_entity", !.entity = entity],
                 ~adapter.set)

describe_entity ==
    \E entity \in EntityNames :
        /\ Idle
        /\ ReadsBounded(get_adapter)
        /\ describe_entity_call(mapping(get_adapter), entity)
        /\ UNCHANGED <<file, env, db, requests>>

query_entity_done(r) ==
    /\ adapter' = r.adapter
    /\ last' = Outcome(r.adapter, r.result, ~adapter.set)

query_entity_loaded(a, entity, args) ==
    IF a.loaded
    THEN query_entity_result(a, entity, args.id, args.filters, args.fields,
                             args.limit, env.store_up)
    ELSE [adapter |-> a,
          result |-> [NoCall EXCEPT !.op = "query_entity", !.entity = entity,
                                    !.id = args.id, !.filters = args.filters,
                                    !.fields = args.fields, !.limit = args.limit]]

query_entity ==
    \E entity \in EntityNames, args \in QueryArgs :
        /\ Idle
        /\ ReadsBounded(get_adapter)
        /\ query_entity_done(query_entity_loaded(mapping(get_adapter), entity, args))
        /\ UNCHANGED <<file, env, db, requests>>

(* Requests are served one at a time: the caller takes the outcome of a    *)
(* call before the next call or any change of the environment.             *)
Return ==
    /\ ~Idle
    /\ last' = NoCall
    /\ UNCHANGED <<file, env, db, adapter, requests>>

reset_adapter_keeps_instance ==
    /\ Idle
    /\ adapter' = adapter
    /\ last' = [last EXCEPT !.reset = TRUE]
    /\ UNCHANGED <<file, env, db, requests>>

(* last.reset marks the calls served first after a reset_adapter() *)
reset_adapter ==
    /\ Idle
    /\ adapter' = NoAdapter
    /\ last' = [last EXCEPT !.reset = TRUE]
    /\ UNCHANGED <<file, env, db, requests>>

(* The environment: the configuration file is rewritten, rows come and go *)
WriteFile ==
    /\ Idle
    /\ file' \in Files
    /\ UNCHANGED <<env, db, adapter, last, requests>>

InsertRow ==
    \E t \in Tables : \E row \in TableRows(t) :
        /\ Idle
        /\ Len(db[t]) < MaxRows
        /\ ~InList(row, db[t])
        /\ db' = [db EXCEPT ![t] = Append(@, row)]
        /\ UNCHANGED <<file, env, adapter, last, requests>>

DeleteRow ==
    \E t \in Tables :
        /\ Idle
        /\ t # "aircraft"
        /\ db[t] # <<>>
        /\ db' = [db EXCEPT ![t] = Tail(@)]
        /\ UNCHANGED <<file, env, adapter, last, requests>>

Next ==
    \/ list_entities
    \/ describe_entity
    \/ query_entity
    \/ Return
    \/ reset_adapter
    \/ WriteFile
    \/ InsertRow
    \/ DeleteRow

Spec == Init /\ [][Next]_vars

-----------------------------------------------------------------------------
(* Requests served at the same time. get_adapter() and the mapping         *)
(* property take no lock, so the steps of two requests interleave between  *)
(* the test of the shared reference, the construction or load, and the     *)
(* assignment. An instance is named by its position in requests.instances; *)
(* adapter stays the instance the global _adapter refers to.               *)

GlobalAdapter(rq) == IF rq.global = 0 THEN NoAdapter ELSE rq.instances[rq.global]

At(t, pc) == requests.pc[t] = pc

Goto(rq, t, pc) == [rq EXCEPT !.pc[t] = pc]

Step(rq) ==
    /\ requests' = rq
    /\ adapter' = GlobalAdapter(rq)
    /\ UNCHANGED <<file, env, db, last>>

(* if _adapter is None: *)
get_adapter_is_none ==
    \E t \in Requests :
        /\ At(t, "get_adapter")
        /\ Step(Goto(requests, t,
                     IF requests.global = 0 THEN "construct" ELSE "return"))

(* DataAdapter(): the new instance is not yet referred to by _adapter *)
get_adapter_construct ==
    \E t \in Requests :
        /\ At(t, "construct")
        /\ Step(Goto([requests EXCEPT
                        !.instances = Append(@, DataAdapter__init__),
                        !.self[t] = Len(requests.instances) + 1],
                     t, "assign"))

(* _adapter = <the new instance> *)
get_adapter_assign ==
    \E t \in Requests :
        /\ At(t, "assign")
        /\ Step(Goto([requests EXCEPT !.global = requests.self[t],
                                      !.assigned = @ + 1],
                     t, "return"))

(* return _adapter *)
get_adapter_return ==
    \E t \in Requests :
        /\ At(t, "return")
        /\ Step(Goto([requests EXCEPT !.self[t] = requests.global], t, "mapping"))

(* if self._mapping is None: *)
mapping_is_none ==
    \E t \in Requests :
        /\ At(t, "mapping")
        /\ Step(Goto(requests, t,
                     IF requests.instances[requests.self[t]].loaded
                     THEN "done" ELSE "load"))

(* the file is opened and parsed, and the result is assigned to            *)
(* self._mapping; a parser's exception ends the request                    *)
mapping_load ==
    \E t \in Requests :
        /\ At(t, "load")
        /\ LET a == mapping([requests.instances[requests.self[t]]
                               EXCEPT !.loaded = FALSE])
           IN  Step(Goto([requests EXCEPT
                            !.instances[requests.self[t]] = a,
                            !.loads = @ + (IF a.loaded THEN 1 ELSE 0)],
                         t, IF a.loaded THEN "done" ELSE "raised"))

ConcurrentNext ==
    \/ get_adapter_is_none
    \/ get_adapter_construct
    \/ get_adapter_assign
    \/ get_adapter_return
    \/ mapping_is_none
    \/ mapping_load

ConcurrentSpec == Init /\ [][ConcurrentNext]_vars

-----------------------------------------------------------------------------
(* Properties.  After a call, adapter holds the mapping the call used, and *)
(* file, env and db are as the call found them.                            *)

LastConfig == get_entity_config(adapter.mapping, last.entity)

LastConfigured == is_entity_configured(adapter.mapping, last.entity)

LogicalColumns(config) == DictKeys(config.columns)

MultiRecordCall == last.op = "query_entity" /\ LastConfigured /\ last.id = NONE

SingleRecordCall == last.op = "query_entity" /\ LastConfigured /\ last.id # NONE

LastFilters == IF last.filters # <<>> THEN last.filters[1] ELSE <<>>

StoreReachable == Truthy(env.DATABASE_URL) /\ env.store_up

ErrorPayload ==
    /\ last.raised = ""
    /\ last.keys = <<"error", "available_entities">>
    /\ last.error = "Entity '" \o last.entity \o "' not configured"

(* C1: in multi-record mode a filter with a key that is not a logical      *)
(* column of the entity is rejected with a failure payload, and the key    *)
(* does not reach the SQL text.  Stated of the calls that return, so that  *)
(* a failure of the store is not taken for the rejection.                  *)
C1_UnknownFilterKeyRejected ==
    (MultiRecordCall /\ last.raised = ""
       /\ \E i \in 1..Len(LastFilters) :
              ~HasKey(LastConfig.columns, LastFilters[i][1]))
    => /\ InList("error", last.keys)
       /\ \A i \in 1..Len(LastFilters) :
              ~HasKey(LastConfig.columns, LastFilters[i][1])
              => ~InList(LastFilters[i][1], last.query)

(* C2: every public operation returns a payload; no exception leaves it.   *)
C2_OperationsTotal ==
    last.op \in {"list_entities", "describe_entity", "query_entity"}
    => last.raised = ""

(* C3: query_entity on an entity that is not configured returns exactly    *)
(* {error, available_entities}, and available_entities are the keys of the *)
(* entities that list_entities returns at that moment.                     *)
C3_UnconfiguredQueryPayload ==
    (last.op = "query_entity" /\ ~LastConfigured)
    => /\ ErrorPayload
       /\ list_entities_result(adapter).raised = ""
       /\ last.available_entities = DictKeys(list_entities_result(adapter).entities)

(* C4: describe_entity returns {error, available_entities} for every       *)
(* entity that is not configured (absent, or present without source_table  *)
(* or with empty columns) and {entity, fields, source_table} only for a    *)
(* configured one.  Stated of the calls that return.                       *)
C4_DescribeRejectsUnconfigured ==
    (last.op = "describe_entity" /\ last.raised = "")
    => /\ ~LastConfigured => ErrorPayload
       /\ last.keys = <<"entity", "fields", "source_table">> => LastConfigured

(* C5: every key of every record that query_entity returns is a logical    *)
(* column name of the queried entity.                                      *)
C5_RecordKeysAreLogical ==
    last.op = "query_entity"
    => \A i \in 1..Len(last.data) : \A j \in 1..Len(last.data[i]) :
           HasKey(LastConfig.columns, last.data[i][j][1])

C5_Witness ==
    /\ last.op = "query_entity"
    /\ last.entity = "pilots"
    /\ last.data # <<>>
    /\ HasKey(last.data[1], "name")
    /\ DictGet(LastConfig.columns, "name", NONE) = "full_name"

(* C6 as claimed: a single-record lookup that finds a row returns a record *)
(* whose keys are all the logical columns of the entity.                   *)
C6_FoundRecordHasAllColumns ==
    (SingleRecordCall /\ last.fields = <<>> /\ last.keys = <<"data">>)
    => DictKeys(last.data[1]) = LogicalColumns(LastConfig)

(* C6 amended: a single-record lookup that finds a row returns a record    *)
(* whose keys are, in columns order, the logical columns that are mapped   *)
(* to a physical column.                                                   *)
C6_FoundRecordHasMappedColumns ==
    (SingleRecordCall /\ last.fields = <<>> /\ last.keys = <<"data">>)
    => DictKeys(last.data[1])
         = DictKeys(SelectSeq(LastConfig.columns, LAMBDA c : Truthy(c[2])))

C6_Witness ==
    /\ SingleRecordCall
    /\ last.fields = <<>>
    /\ last.keys = <<"data">>
    /\ \E i \in 1..Len(LastConfig.columns) : ~Truthy(LastConfig.columns[i][2])
    /\ DictKeys(last.data[1]) = <<"id">>

(* C7: for a configured entity describe_entity returns fields whose keys   *)
(* are the logical columns, in columns order, whatever rows the table      *)
(* holds.                                                                  *)
C7_DescribeFieldsAreColumns ==
    (last.op = "describe_entity" /\ LastConfigured)
    => /\ last.raised = ""
       /\ last.keys = <<"entity", "fields", "source_table">>
       /\ DictKeys(last.fields_out) = LogicalColumns(LastConfig)

C7_Witness ==
    /\ last.op = "describe_entity"
    /\ LastConfigured
    /\ Len(db[LastConfig.source_table]) = MaxRows
    /\ \E i \in 1..Len(LastConfig.columns) : ~Truthy(LastConfig.columns[i][2])
    /\ Len(last.fields_out) = Len(LastConfig.columns)

(* C8: with filters on logical columns, every unprojected record r that    *)
(* multi-record mode returns has r[k] = v for every pair of the filters.   *)
C8_FiltersSelectOnLogicalColumns ==
    (/\ MultiRecordCall
     /\ last.fields = <<>>
     /\ last.raised = ""
     /\ \A i \in 1..Len(LastFilters) : HasKey(LastConfig.columns, LastFilters[i][1]))
    => \A r \in 1..Len(last.data) : \A i \in 1..Len(LastFilters) :
           DictGet(last.data[r], LastFilters[i][1], NONE) = LastFilters[i][2]

(* the rows of the entity's table that the id names: those whose physical  *)
(* id column holds the id                                                  *)
RowsWithId(config, id) ==
    LET col == DictGet(config.columns, "id", "id")
    IN  IF config.source_table \in Tables /\ col \in TableColumns(config.source_table)
        THEN SelectSeq(db[config.source_table], LAMBDA row : row[col] = id)
        ELSE <<>>

(* C9: with the store reachable, query_entity with an id that matches no   *)
(* row of a configured entity returns exactly {data: null, message}.       *)
C9_MissingIdGivesNullData ==
    (SingleRecordCall /\ StoreReachable /\ RowsWithId(LastConfig, last.id) = <<>>)
    => /\ last.raised = ""
       /\ last.keys = <<"data", "message">>
       /\ last.data_null
       /\ last.message = "No " \o last.entity \o " found with id '" \o last.id \o "'"

EntityRows(config) ==
    IF config.source_table \notin Tables THEN <<>>
    ELSE IF config.filter = <<>> THEN db[config.source_table]
    ELSE SelectSeq(db[config.source_table],
                   LAMBDA row : Quote(row[config.filter[1]]) = config.filter[3])

Min(a, b) == IF a <= b THEN a ELSE b

EmptyFiltersCall == MultiRecordCall /\ last.raised = "" /\ last.filters = << <<>> >>

SelectedColumns(config) ==
    DictKeys(SelectSeq(config.columns, LAMBDA c : Truthy(c[2])))

(* C12: when fields is supplied to query_entity, the empty list included,  *)
(* the keys of every returned record are the record's keys that are in     *)
(* fields; when fields is not supplied they are all the record's keys; in  *)
(* single-record and in multi-record mode alike.                           *)
C12_ProjectionKeepsExactlyFields ==
    (last.op = "query_entity" /\ LastConfigured /\ last.raised = "")
    => \A i \in 1..Len(last.data) :
          DictKeys(last.data[i])
            = IF last.fields = <<>> THEN SelectedColumns(LastConfig)
              ELSE SelectSeq(SelectedColumns(LastConfig),
                             LAMBDA k : InList(k, last.fields[1]))

(* the values of the argument fields: None, and the lists of at most       *)
(* MaxFields names                                                         *)
FieldNames == {"id", "name", "bogus"}

FieldArgs ==
    {<<>>} \cup { <<f>> : f \in UNION { [1..n -> FieldNames] : n \in 0..MaxFields } }

(* C13: the projection of query_entity is idempotent: for every record     *)
(* that a call returns, projected or not, and every fields, projecting     *)
(* the projected record again with the same fields changes nothing, in     *)
(* single-record and in multi-record mode.                                 *)
C13_ProjectionIdempotent ==
    last.op = "query_entity"
    => \A f \in FieldArgs :
          /\ project_rows(project_rows(last.data, f), f) = project_rows(last.data, f)
          /\ \A i \in 1..Len(last.data) :
                project_record(project_record(last.data[i], f), f)
                  = project_record(last.data[i], f)

C13_Witness ==
    /\ last.op = "query_entity"
    /\ last.fields = <<>>
    /\ Len(last.data) = 2
    /\ DictKeys(last.data[1]) = <<"id", "name", "certificate_valid">>
    /\ \E f \in FieldArgs :
          DictKeys(project_record(last.data[1], f)) = <<"id", "name">>

KeyIndex(row, k) == IndexOf(DictKeys(row), k)

(* p holds pairs of r only, in the order they have in r *)
InRecordOrder(p, r) ==
    /\ \A a \in 1..Len(p) : InList(p[a], r)
    /\ \A a, b \in 1..Len(p) : a < b => KeyIndex(r, p[a][1]) < KeyIndex(r, p[b][1])

(* C14: the projection keeps the remaining keys in the record's order      *)
(* whatever the order of fields, and a name of fields that is not a key of *)
(* the record gives no key and no error: the call ends as the same call    *)
(* without fields ends, with the known names projected.                    *)
C14_ProjectionKeepsOrder ==
    last.op = "query_entity"
    => /\ \A f \in FieldArgs : \A i \in 1..Len(last.data) :
             FieldsGiven(f)
             => /\ InRecordOrder(project_record(last.data[i], f), last.data[i])
                /\ \A k \in FieldNames :
                      HasKey(project_record(last.data[i], f), k)
                        <=> (InList(k, f[1]) /\ HasKey(last.data[i], k))
       /\ (FieldsGiven(last.fields) /\ adapter.loaded)
          => /\ last.raised
                  = query_entity_result(adapter, last.entity, last.id, last.filters,
                                        <<>>, last.limit, env.store_up).result.raised
             /\ \A i \in 1..Len(last.data) :
                   /\ DictKeys(last.data[i])
                        = SelectSeq(SelectedColumns(LastConfig),
                                    LAMBDA k : InList(k, last.fields[1]))
                   /\ \A k \in 1..Len(last.fields[1]) :
                         ~HasKey(LastConfig.columns, last.fields[1][k])
                         => ~HasKey(last.data[i], last.fields[1][k])

C14_Witness ==
    /\ last.op = "query_entity"
    /\ last.raised = ""
    /\ last.fields = << <<"name", "bogus", "id">> >>
    /\ last.data # <<>>
    /\ DictKeys(last.data[1]) = <<"id", "name">>

(* values a caller may supply as an id or as the value of a filter *)
ValueArgs == {"ID-1", "1", "", "x' OR '1'='1"}

(* the filters with the values vals in place of their own *)
Revalued(filters, vals) ==
    IF filters = <<>> THEN <<>>
    ELSE << [i \in 1..Len(filters[1]) |-> <<filters[1][i][1], vals[i]>>] >>

QueryText(entity, id, filters, fields, limit) ==
    query_entity_result(adapter, entity, id, filters, fields, limit,
                        env.store_up).result.query

(* C15: the values of a call never reach the SQL text: a call that differs *)
(* from the last one in the id value only, or in the filter values only,   *)
(* builds the same text, and the values of the last call are the values of *)
(* its bound parameters.                                                   *)
C15_ValuesOnlyInParameters ==
    (last.op = "query_entity" /\ LastConfigured)
    => /\ last.id # NONE
          => /\ \A v \in ValueArgs :
                   QueryText(last.entity, v, last.filters, last.fields, last.limit)
                     = last.query
             /\ last.query # <<>> => last.params = << <<"id_value", last.id>> >>
       /\ last.id = NONE
          => /\ \A vals \in [1..Len(LastFilters) -> ValueArgs] :
                   QueryText(last.entity, NONE, Revalued(last.filters, vals),
                             last.fields, last.limit)
                     = last.query
             /\ last.query # <<>>
                => /\ Len(last.params) = Len(LastFilters)
                   /\ \A i \in 1..Len(LastFilters) :
                         last.params[i][2] = LastFilters[i][2]

C15_Witness ==
    /\ MultiRecordCall
    /\ Len(LastFilters) = 2
    /\ InList(":p0", last.query)
    /\ InList(":p1", last.query)
    /\ last.params = << <<"p0", "ID-1">>, <<"p1", "Ann">> >>
    /\ QueryText(last.entity, NONE, Revalued(last.filters, <<"x' OR '1'='1", "">>),
                 last.fields, last.limit) = last.query

(* the record of a row of the entity: its mapped logical columns with the  *)
(* values of their physical columns                                        *)
RecordOf(row, config) ==
    LET kept == SelectSeq(config.columns, LAMBDA c : Truthy(c[2]))
    IN  [i \in 1..Len(kept) |-> <<kept[i][1], row[kept[i][2]]>>]

(* the statement has the static filter, in parentheses, as the first       *)
(* conjunct of its WHERE clause                                            *)
HasStaticFilter(query, config) ==
    LET iWhere == IndexOf(query, "WHERE")
        n == Len(config.filter)
    IN  config.filter # <<>>
        => SubSeq(query, iWhere + 1, iWhere + n + 2)
             = <<"(">> \o config.filter \o <<")">>

(* C16: every statement built for an entity, by id or by filters, has the  *)
(* entity's static filter as a conjunct of its WHERE clause, and every     *)
(* record returned is the record of a row that the static filter admits.   *)
C16_StaticFilterAlwaysApplied ==
    (last.op = "query_entity" /\ LastConfigured /\ last.query # <<>>)
    => /\ HasStaticFilter(last.query, LastConfig)
       /\ \A i \in 1..Len(last.data) :
             \E r \in 1..Len(EntityRows(LastConfig)) :
                last.data[i]
                  = project_record(RecordOf(EntityRows(LastConfig)[r], LastConfig),
                                   last.fields)

(* a step in which a public operation is called *)
CallStep == Idle /\ last'.op # "none"

(* the call is served by the instance that _adapter held before it *)
SameInstance ==
    adapter.set => (~last'.constructed /\ adapter'.db_url = adapter.db_url
                    /\ adapter'.reads >= adapter.reads)

(* C17 as claimed: without a reset in between, the calls read the file at  *)
(* most once and all use the same adapter instance and the same loaded     *)
(* mapping, whatever becomes of the file between them.                     *)
C17_FileReadAtMostOnce ==
    [][CallStep => /\ SameInstance
                   /\ adapter'.reads <= 1
                   /\ adapter.loaded => /\ adapter'.loaded
                                        /\ adapter'.mapping = adapter.mapping]_vars

(* C17 amended: without a reset in between, all calls use the same adapter *)
(* instance, a call reads the file at most once, and once the mapping is   *)
(* loaded no call reads the file again and every call uses that mapping,   *)
(* whatever becomes of the file; a read that fails loads nothing, and the  *)
(* next call reads the file again.                                         *)
C17_LoadedAtMostOnce ==
    [][CallStep => /\ SameInstance
                   /\ adapter'.reads <= adapter.reads + 1
                   /\ adapter.loaded => /\ adapter'.loaded
                                        /\ adapter'.mapping = adapter.mapping
                                        /\ adapter'.reads = adapter.reads
                   /\ (adapter.set /\ ~adapter.loaded /\ ~adapter'.loaded)
                      => (last'.raised = "YAMLError"
                          /\ adapter'.reads = adapter.reads + 1)]_vars

C17_Witness ==
    /\ last.op = "query_entity"
    /\ last.raised = ""
    /\ ~last.constructed
    /\ adapter.loaded
    /\ adapter.reads = 1
    /\ file = FileStub
    /\ adapter.mapping = FileMixed.entities
    /\ last.data # <<>>

(* C18: when the file is absent or empty at the first access, the load     *)
(* gives the empty mapping and no error: list_entities returns             *)
(* {entities: {}, message}, is_entity_configured is false for every name,  *)
(* and query_entity and describe_entity return the not-configured payload  *)
(* with no available entity.                                               *)
C18_AbsentFileLoadsEmpty ==
    (last.op # "none" /\ last.constructed /\ file \in {FileAbsent, FileEmpty})
    => /\ adapter.loaded
       /\ adapter.mapping = <<>>
       /\ last.raised = ""
       /\ \A e \in EntityNames : ~is_entity_configured(adapter.mapping, e)
       /\ last.op = "list_entities"
          => /\ last.keys = <<"entities", "message">>
             /\ last.entities = <<>>
             /\ last.message # ""
       /\ last.op \in {"query_entity", "describe_entity"}
          => /\ ErrorPayload
             /\ last.available_entities = <<>>

C18_Witness ==
    /\ last.op = "query_entity"
    /\ last.constructed
    /\ file = FileAbsent
    /\ adapter.reads = 0
    /\ ErrorPayload
    /\ last.available_entities = <<>>

(* C19: for any content of the configuration, is_entity_configured(e) is   *)
(* true iff e has a source_table set and non-empty columns, and            *)
(* get_configured_entities returns, in configuration order, the names for  *)
(* which is_entity_configured is true.                                     *)
C19_ConfiguredEntitiesAgree ==
    adapter.loaded
    => /\ \A e \in EntityNames :
             is_entity_configured(adapter.mapping, e)
               <=> /\ HasKey(adapter.mapping, e)
                   /\ Truthy(get_entity_config(adapter.mapping, e).source_table)
                   /\ get_entity_config(adapter.mapping, e).columns # <<>>
       /\ get_configured_entities(adapter.mapping).raised = ""
       /\ get_configured_entities(adapter.mapping).value
            = SelectSeq(DictKeys(adapter.mapping),
                        LAMBDA e : is_entity_configured(adapter.mapping, e))

(* C20: every connection that a call opens is released before the call     *)
(* returns or raises, on a result, on an empty result and on a failure of  *)
(* the execution alike; a call opens at most one connection, for the one   *)
(* statement it has built.                                                 *)
C20_ConnectionsReleased ==
    last.op # "none"
    => /\ last.open = 0
       /\ last.opened <= 1
       /\ last.opened = 1 => (last.op = "query_entity" /\ last.query # <<>>)

C20_Witness ==
    /\ last.op = "query_entity"
    /\ last.raised = "ProgrammingError"
    /\ last.opened = 1
    /\ last.open = 0

(* the exceptions of the engine, of the connection and of the execution *)
DatabaseFailures == {"ValueError", "OperationalError", "ProgrammingError"}

(* the adapter with a database URL and an engine *)
WithStore(a) == [a EXCEPT !.db_url = "sqlite", !.engine = TRUE]

ViewStep == CallStep /\ last'.op \in {"list_entities", "describe_entity"}

(* C21: list_entities and describe_entity execute nothing on the database: *)
(* they create no engine, open no connection and run no statement, and     *)
(* their outcome is a function of the loaded mapping alone: whether a      *)
(* database URL is configured and whether the store is reachable play no   *)
(* part in it, and no failure of the database leaves them.                 *)
C21_ViewsLeaveDatabaseAlone ==
    [][ViewStep
       => /\ adapter'.engine = adapter.engine
          /\ last'.opened = 0
          /\ last'.open = 0
          /\ last'.query = <<>>
          /\ last'.raised \notin DatabaseFailures
          /\ adapter'.loaded
             => last' = Outcome(adapter',
                                IF last'.op = "list_entities"
                                THEN list_entities_result(WithStore(adapter'))
                                ELSE describe_entity_result(WithStore(adapter'),
                                                            last'.entity),
                                last'.constructed)]_vars

C21_Witness ==
    /\ last.op = "list_entities"
    /\ env.DATABASE_URL = NONE
    /\ last.raised = ""
    /\ last.entities # <<>>
    /\ ~adapter.engine

(* C22: on every query_entity call that is_entity_configured lets pass,    *)
(* build_select_query builds its statement: none of its failures can occur *)
(* behind the gate, whatever the shape of columns.                         *)
C22_GateGuaranteesStatement ==
    (last.op = "query_entity" /\ LastConfigured)
    => /\ build_select_query(adapter.mapping, last.entity, <<>>, <<>>, <<>>).raised = ""
       /\ last.query # <<>>

(* the last two tokens of a statement *)
Ending(query) == SubSeq(query, Len(query) - 1, Len(query))

(* C23: build_select_query appends a LIMIT clause iff the limit is a       *)
(* positive integer: with no limit, with 0 and with a negative limit the   *)
(* statement has no LIMIT clause, with a positive n it ends with LIMIT n.  *)
C23_LimitClauseIffPositive ==
    (last.op = "query_entity" /\ LastConfigured /\ last.query # <<>>)
    => /\ ~InList("LIMIT",
                  build_select_query(adapter.mapping, last.entity, <<>>, <<>>, <<>>).query)
       /\ last.id = NONE
          => /\ InList("LIMIT", last.query) <=> last.limit > 0
             /\ last.limit > 0 => Ending(last.query) = <<"LIMIT", IntToStr(last.limit)>>
       /\ last.id # NONE => Ending(last.query) = <<"LIMIT", IntToStr(OneRowLimit)>>

(* the text of the WHERE clause of a statement: what follows WHERE, up to  *)
(* the LIMIT clause if there is one                                        *)
WhereText(query) ==
    SubSeq(query, IndexOf(query, "WHERE") + 1,
           IF Len(query) >= 2 /\ query[Len(query) - 1] = "LIMIT"
           THEN Len(query) - 2 ELSE Len(query))

(* the predicate that the last call hands to build_select_query *)
CallerPredicate ==
    IF last.id # NONE
    THEN <<PyStr(DictGet(LastConfig.columns, "id", "id")), "=", ":id_value">>
    ELSE IF LastFilters # <<>> THEN filter_conditions(LastFilters)
    ELSE <<>>

Parenthesized(pred) == <<"(">> \o pred \o <<")">>

(* C24: the WHERE clause is the conjunction of the static filter, if the   *)
(* entity has one, and the caller's predicate, if there is one, in this    *)
(* order and each in its own parentheses; it is 1=1 when there is neither, *)
(* and nothing else is ever in it.                                         *)
C24_WhereIsFilterThenPredicate ==
    (last.op = "query_entity" /\ LastConfigured /\ last.query # <<>>)
    => WhereText(last.query)
         = IF LastConfig.filter # <<>> /\ CallerPredicate # <<>>
           THEN Parenthesized(LastConfig.filter) \o <<"AND">>
                \o Parenthesized(CallerPredicate)
           ELSE IF LastConfig.filter # <<>> THEN Parenthesized(LastConfig.filter)
           ELSE IF CallerPredicate # <<>> THEN Parenthesized(CallerPredicate)
           ELSE <<"1", "=", "1">>

C24_Witness ==
    /\ MultiRecordCall
    /\ last.entity = "pilots"
    /\ Len(LastFilters) = 2
    /\ WhereText(last.query)
         = <<"(", "status", "=", "'active'", ")", "AND",
             "(", "id", "=", ":p0", "AND", "name", "=", ":p1", ")">>

(* the column of the id predicate: the physical column of the logical id,  *)
(* the logical name itself when the id has none                            *)
IdColumn(config) ==
    IF Truthy(DictGet(config.columns, "id", NONE))
    THEN DictGet(config.columns, "id", NONE)
    ELSE "id"

(* the rows of the entity whose id column holds the id *)
EntityRowsWithId(config, id) ==
    SelectSeq(EntityRows(config), LAMBDA row : row[IdColumn(config)] = id)

(* C25: query_one puts its equality predicate on the physical column of    *)
(* the logical id, or on the logical name when the id has no physical      *)
(* column, binds it to the id value and builds the statement with limit 1; *)
(* its result is the first such row keyed by logical names, or nothing     *)
(* when there is no such row.                                              *)
C25_IdPredicateOnPhysicalColumn ==
    (SingleRecordCall /\ last.query # <<>>)
    => /\ WhereText(last.query)
            = (IF LastConfig.filter # <<>>
               THEN Parenthesized(LastConfig.filter) \o <<"AND">> ELSE <<>>)
              \o Parenthesized(<<IdColumn(LastConfig), "=", ":id_value">>)
       /\ last.params = << <<"id_value", last.id>> >>
       /\ Ending(last.query) = <<"LIMIT", IntToStr(OneRowLimit)>>
       /\ last.raised = ""
          => IF EntityRowsWithId(LastConfig, last.id) = <<>>
             THEN last.data_null
             ELSE last.data
                    = <<project_record(
                          RecordOf(EntityRowsWithId(LastConfig, last.id)[1], LastConfig),
                          last.fields)>>

(* the requests that have their adapter from get_adapter() *)
Served == {t \in Requests : requests.pc[t] \in {"mapping", "load", "done", "raised"}}

(* C26: when several requests make their first get_adapter() call and      *)
(* their first access to the mapping at the same time, the global adapter  *)
(* is assigned once, the configuration is loaded once, and all requests    *)
(* obtain the same adapter instance.                                       *)
C26_SingletonWriteOnceConcurrently ==
    /\ requests.assigned <= 1
    /\ requests.loads <= 1
    /\ \A t, u \in Served : requests.self[t] = requests.self[u]

(* what a load makes of the file: its entities, nothing when it is absent *)
FileContent == IF file.exists THEN file.entities ELSE <<>>

Loadable == ~file.exists \/ file.wellformed

(* the call is served by an instance constructed for it *)
FreshInstance ==
    /\ last'.constructed
    /\ adapter'.set
    /\ adapter'.db_url = env.DATABASE_URL
    /\ adapter'.reads <= 1

(* C27 as claimed: the first call after reset_adapter() is served by a     *)
(* fresh adapter whose mapping is the content of the file at that first    *)
(* access, and every later call until the next reset is served by that     *)
(* same instance with that mapping.                                        *)
C27_ResetLoadsFileAtFirstAccess ==
    [][CallStep
       => /\ last.reset => /\ FreshInstance
                           /\ adapter'.loaded
                           /\ adapter'.mapping = FileContent
          /\ (~last.reset /\ adapter.set)
             => /\ SameInstance
                /\ adapter'.loaded
                /\ adapter'.mapping = adapter.mapping]_vars

(* C27 amended: the first call after reset_adapter() is served by a fresh  *)
(* adapter with nothing loaded; the mapping of the following calls is the  *)
(* content of the file at the first access after the reset that does not   *)
(* fail in the parser (an access that fails loads nothing); every later    *)
(* call until the next reset is served by that same instance.              *)
C27_ResetLoadsFileAtFirstParse ==
    [][CallStep
       => /\ last.reset => FreshInstance
          /\ (~last.reset /\ adapter.set) => SameInstance
          /\ (last.reset \/ ~adapter.loaded)
             => IF Loadable
                THEN adapter'.loaded /\ adapter'.mapping = FileContent
                ELSE ~adapter'.loaded /\ last'.raised = "YAMLError"
          /\ (~last.reset /\ adapter.loaded)
             => adapter'.loaded /\ adapter'.mapping = adapter.mapping]_vars

C27_Witness ==
    /\ last.op = "describe_entity"
    /\ last.reset
    /\ last.constructed
    /\ last.raised = ""
    /\ adapter.loaded
    /\ adapter.reads = 1
    /\ adapter.mapping = FileSparseIds.entities
    /\ db["operators"] # <<>>

(* the last call with other filters and another limit *)
LastCallWith(filters, limit) ==
    query_entity_result(adapter, last.entity, last.id, filters, last.fields,
                        limit, env.store_up).result

SameOutcome(r) ==
    /\ r.query = last.query
    /\ r.params = last.params
    /\ r.raised = last.raised
    /\ r.keys = last.keys
    /\ r.data = last.data
    /\ r.data_null = last.data_null
    /\ r.message = last.message
    /\ r.count = last.count
    /\ r.limit_out = last.limit_out

(* C28: when id is supplied, the empty string included, query_entity runs  *)
(* in single-record mode only: filters and limit change neither the        *)
(* statement nor the result, the payload carries data (and message when    *)
(* there is no record) and never count or limit, and the one statement     *)
(* that is run is query_one's, not query_many's.                           *)
C28_IdGivesSingleRecordOnly ==
    (SingleRecordCall /\ adapter.loaded)
    => /\ \A filters \in FilterChoices, limit \in Limits :
             SameOutcome(LastCallWith(filters, limit))
       /\ last.raised = ""
          => /\ last.keys = (IF last.data_null THEN <<"data", "message">>
                             ELSE <<"data">>)
             /\ last.data_null <=> last.data = <<>>
             /\ Len(last.data) <= 1
       /\ last.query # <<>>
          => /\ last.params = << <<"id_value", last.id>> >>
             /\ Ending(last.query) = <<"LIMIT", IntToStr(OneRowLimit)>>
             /\ last.opened <= 1

C28_Witness ==
    /\ SingleRecordCall
    /\ last.id = "ID-1"
    /\ last.filters = << << <<"id", "1">> >> >>
    /\ last.limit = 0
    /\ last.raised = ""
    /\ last.keys = <<"data">>
    /\ Len(last.data) = 1
    /\ Len(db["operators"]) = 2

(* C29: no public operation changes the loaded mapping: once it is loaded, *)
(* a call of list_entities, describe_entity or query_entity, whether it    *)
(* returns or raises, leaves the source_table, columns and filter of every *)
(* entity as they were, so that list_entities and describe_entity give the *)
(* same results after the call as before it.                               *)
C29_OperationsKeepMapping ==
    [][(CallStep /\ adapter.loaded)
       => /\ adapter'.loaded
          /\ DictKeys(adapter'.mapping) = DictKeys(adapter.mapping)
          /\ \A e \in EntityNames :
                /\ get_entity_config(adapter'.mapping, e)
                     = get_entity_config(adapter.mapping, e)
                /\ describe_entity_result(adapter', e)
                     = describe_entity_result(adapter, e)
          /\ list_entities_result(adapter') = list_entities_result(adapter)]_vars

C29_Witness ==
    /\ last.op = "query_entity"
    /\ last.raised = "OperationalError"
    /\ ~last.constructed
    /\ adapter.loaded
    /\ adapter.mapping = FileMixed.entities
    /\ file = FileSparseIds
    /\ describe_entity_result(adapter, "pilots").source_table = "operators"

====
